---- MODULE Spec2Model ----
(***************************************************************************)
(* The composition core of libp2p: the AndThen transport combinator        *)
(* (core/src/transport/and_then.rs) and the Either family of two-case      *)
(* wrappers (core/src/either.rs).                                          *)
(*                                                                         *)
(* The base transport, the upgrade function, the inner muxers and the      *)
(* inner byte streams are external collaborators: every answer they give   *)
(* is a nondeterministic choice of the action that calls them, and the     *)
(* operators below compute what the combinators do with that answer.       *)
(*                                                                         *)
(* The three components (a transport pipeline, an Either muxer, an Either  *)
(* byte stream) share no state in the source.  A behaviour exercises one   *)
(* of them, chosen in Init (variable component), so that the reachable     *)
(* states are the disjoint union of the three state spaces.                *)
(***************************************************************************)
EXTENDS Integers, Sequences, FiniteSets, TLC

\* ------------------------------------------------------------- bounds
\* The connections the base listener reports before it ends.
MaxIncoming == 2
\* The outbound requests and substreams an inner muxer creates in all.
MaxIds == 2
\* The bytes an inner byte stream holds to be read, and takes to be written.
MaxBytes == 2

\* The connections the base listener reports in the behaviours checked for
\* progress.
MaxFairIncoming == 1

\* Addresses, base transports and upgrade functions are opaque values the
\* combinators only move and copy: two of each tell "the same" from
\* "another".
Addrs == {1, 2}
Transports == {1, 2}
Upgrades == {1, 2}

None == <<>>
Some(x) == <<x>>

\* upgrade::Endpoint
Dialer == "Dialer"
Listener == "Listener"

\* The two cases of every Either wrapper
First == "First"
Second == "Second"
Tags == {First, Second}

\* std::io::Error values: an I/O failure of the base, a failed negotiation
EIo == "EIo"
ENeg == "ENeg"
NoErr == "-"

VARIABLES
    component,  \* which component this behaviour exercises
    builder,    \* the AndThen value the caller owns (None once consumed)
    built,      \* the arguments and_then was called with
    ret,        \* the rejection the caller holds: what the base returned, what AndThen returned
    dial,       \* the future returned by a successful dial
    listener,   \* the listener returned by a successful listen_on
    items,      \* the items the listener has yielded to the caller
    incoming,   \* the future returned by next_incoming, and the item it resolved to
    pipe,       \* the future returned by a dial through two chained upgrades
    nat,        \* the last nat_traversal call on the AndThen the caller owns
    wrapper,    \* the EitherOutput value: its case tag and its inner value
    twin,       \* a copy of the inner value, driven directly by the same calls
    handles,    \* the EitherOutbound handles the caller holds
    substreams, \* the EitherOutput substreams the caller holds
    last,       \* the last call on the wrapper: its outcome, the twin's, the inner calls made
    panicked,   \* the wrapper panicked ("Wrong API usage")
    misused     \* the caller has passed a handle or substream of the other case

tvars == <<builder, built, ret, dial, listener, items, incoming, pipe, nat>>
evars == <<wrapper, twin, handles, substreams, last, panicked, misused>>
vars == <<component, builder, built, ret, dial, listener, items, incoming, pipe, nat,
          wrapper, twin, handles, substreams, last, panicked, misused>>

\* ------------------------------------------------ the base transport
\* The base transport t accepts the addresses a >= t.
Supports(t, a) == a >= t

\* Transport::dial of the base.  env is the base's own choice of what it
\* hands back: the (transport, address) of a rejection, the address it
\* resolved the dial to.
BaseDial(t, a, env) ==
    IF Supports(t, a)
    THEN [ok |-> TRUE, trans |-> t, addr |-> a, resolved |-> env.addr]
    ELSE [ok |-> FALSE, trans |-> env.trans, addr |-> env.addr, resolved |-> a]

\* Transport::listen_on of the base: on success the address it bound.
BaseListenOn(t, a, env) ==
    IF Supports(t, a)
    THEN [ok |-> TRUE, trans |-> t, addr |-> a, new_addr |-> env.addr]
    ELSE [ok |-> FALSE, trans |-> env.trans, addr |-> env.addr, new_addr |-> a]

\* Transport::nat_traversal of the base: a pure function of the two
\* addresses, with no answer for a server address the base does not support.
BaseNatTraversal(t, server, observed) ==
    IF Supports(t, server) THEN Some(observed) ELSE None

\* ------------------------------------------------------------ AndThen
and_then(transport, upgrade) == [transport |-> transport, upgrade |-> upgrade]

\* The value an upgrade produces out of a connection
Output(upgrade, conn) == [upgrade |-> upgrade, conn |-> conn]
NoOutput == [upgrade |-> 0, conn |-> 0]

\* `a.and_then(move |x| upgrade(x, role, &addr))`: the chained future before
\* its first poll, holding the closure's captures.
AndThenFuture(upgrade, role, addr) ==
    [st |-> "First", upgrade |-> upgrade, role |-> role, addr |-> addr]

\* ChainPoll with a failed negotiation delivered as a ready value instead of
\* an error of the future.
ChainPollNestedFailure(f, a, b, conn) ==
    IF (f.st = "First" /\ a = "Ready" /\ b = "Err") \/ (f.st = "Second" /\ b = "Err")
    THEN [fut |-> [f EXCEPT !.st = "Done"], kind |-> "Ready", val |-> NoOutput,
          err |-> ENeg,
          calls |-> IF f.st = "First"
                    THEN <<[upgrade |-> f.upgrade, conn |-> conn,
                            role |-> f.role, addr |-> f.addr]>>
                    ELSE <<>>]
    ELSE [fut |-> [f EXCEPT !.st = IF f.st = "First" /\ a = "NotReady" THEN "First"
                                   ELSE IF b = "NotReady" THEN "Second" ELSE "Done"],
          kind |-> IF f.st = "First" /\ a = "Err" THEN "Err"
                   ELSE IF (f.st = "First" /\ a = "NotReady") \/ b = "NotReady"
                        THEN "NotReady" ELSE "Ready",
          val |-> IF (f.st = "Second" \/ a = "Ready") /\ b = "Ready"
                  THEN Output(f.upgrade, conn) ELSE NoOutput,
          err |-> IF f.st = "First" /\ a = "Err" THEN EIo ELSE NoErr,
          calls |-> IF f.st = "First" /\ a = "Ready"
                    THEN <<[upgrade |-> f.upgrade, conn |-> conn,
                            role |-> f.role, addr |-> f.addr]>>
                    ELSE <<>>]

\* ChainPoll with the closure run again by every poll of the second stage.
ChainPollReinvokes(f, a, b, conn) ==
    [fut |-> [f EXCEPT !.st = IF f.st = "First" /\ a = "NotReady" THEN "First"
                              ELSE IF f.st = "First" /\ a = "Err" THEN "Done"
                              ELSE IF b = "NotReady" THEN "Second" ELSE "Done"],
     kind |-> IF f.st = "First" /\ a \in {"NotReady", "Err"} THEN a
              ELSE b,
     val |-> IF (f.st = "Second" \/ a = "Ready") /\ b = "Ready"
             THEN Output(f.upgrade, conn) ELSE NoOutput,
     err |-> IF f.st = "First" /\ a = "Err" THEN EIo
             ELSE IF (f.st = "Second" \/ a = "Ready") /\ b = "Err" THEN ENeg
             ELSE NoErr,
     calls |-> IF f.st = "Second" \/ a = "Ready"
               THEN <<[upgrade |-> f.upgrade, conn |-> conn,
                       role |-> f.role, addr |-> f.addr]>>
               ELSE <<>>]

\* ChainPoll never resolving once in its second stage.
ChainPollStuck(f, a, b, conn) ==
    [fut |-> [f EXCEPT !.st = IF f.st = "First" /\ a = "NotReady" THEN "First"
                              ELSE IF f.st = "First" /\ (a = "Err" \/ b # "NotReady")
                                   THEN "Done"
                              ELSE "Second"],
     kind |-> IF f.st = "Second" THEN "NotReady"
              ELSE IF a \in {"NotReady", "Err"} THEN a
              ELSE b,
     val |-> IF f.st = "First" /\ a = "Ready" /\ b = "Ready"
             THEN Output(f.upgrade, conn) ELSE NoOutput,
     err |-> IF f.st = "First" /\ a = "Err" THEN EIo
             ELSE IF f.st = "First" /\ a = "Ready" /\ b = "Err" THEN ENeg
             ELSE NoErr,
     calls |-> IF f.st = "First" /\ a = "Ready"
               THEN <<[upgrade |-> f.upgrade, conn |-> conn,
                       role |-> f.role, addr |-> f.addr]>>
               ELSE <<>>]

\* One poll of the chained future.  a is the outcome of polling the base
\* connection future, b the outcome of polling the upgrade's future, conn the
\* connection the base future resolves to.  The closure runs (calls) when the
\* base future is ready, and the upgrade's future is polled in the same poll.
ChainPoll(f, a, b, conn) ==
    CASE f.st = "First" /\ a = "NotReady" ->
            [fut |-> f, kind |-> "NotReady", val |-> NoOutput, err |-> NoErr,
             calls |-> <<>>]
      [] f.st = "First" /\ a = "Err" ->
            [fut |-> [f EXCEPT !.st = "Done"], kind |-> "Err", val |-> NoOutput,
             err |-> EIo, calls |-> <<>>]
      [] f.st = "First" /\ a = "Ready" ->
            LET call == [upgrade |-> f.upgrade, conn |-> conn,
                         role |-> f.role, addr |-> f.addr] IN
            CASE b = "NotReady" ->
                    [fut |-> [f EXCEPT !.st = "Second"], kind |-> "NotReady",
                     val |-> NoOutput, err |-> NoErr, calls |-> <<call>>]
              [] b = "Err" ->
                    [fut |-> [f EXCEPT !.st = "Done"], kind |-> "Err",
                     val |-> NoOutput, err |-> ENeg, calls |-> <<call>>]
              [] OTHER ->
                    [fut |-> [f EXCEPT !.st = "Done"], kind |-> "Ready",
                     val |-> Output(f.upgrade, conn), err |-> NoErr,
                     calls |-> <<call>>]
      [] f.st = "Second" /\ b = "NotReady" ->
            [fut |-> f, kind |-> "NotReady", val |-> NoOutput, err |-> NoErr,
             calls |-> <<>>]
      [] f.st = "Second" /\ b = "Err" ->
            [fut |-> [f EXCEPT !.st = "Done"], kind |-> "Err", val |-> NoOutput,
             err |-> ENeg, calls |-> <<>>]
      [] OTHER ->
            [fut |-> [f EXCEPT !.st = "Done"], kind |-> "Ready",
             val |-> Output(f.upgrade, conn), err |-> NoErr, calls |-> <<>>]

\* AndThen::dial handing back, on a rejection, the address it was called
\* with instead of the one the base returned.
AndThenDialOwnAddr(self, addr, env) ==
    LET upgrade == self.upgrade
        r == BaseDial(self.transport, addr, env) IN
    IF r.ok
    THEN [ok |-> TRUE, future |-> Some(AndThenFuture(upgrade, Dialer, addr)),
          builder |-> None, addr |-> addr, base |-> r, calls |-> <<>>]
    ELSE [ok |-> FALSE, future |-> None,
          builder |-> Some([transport |-> r.trans, upgrade |-> upgrade]),
          addr |-> addr, base |-> r, calls |-> <<>>]

\* AndThen::dial giving the upgrade the address the base resolved.
AndThenDialResolvedAddr(self, addr, env) ==
    LET upgrade == self.upgrade
        r == BaseDial(self.transport, addr, env) IN
    IF r.ok
    THEN [ok |-> TRUE, future |-> Some(AndThenFuture(upgrade, Dialer, r.resolved)),
          builder |-> None, addr |-> addr, base |-> r, calls |-> <<>>]
    ELSE [ok |-> FALSE, future |-> None,
          builder |-> Some([transport |-> r.trans, upgrade |-> upgrade]),
          addr |-> r.addr, base |-> r, calls |-> <<>>]

\* AndThen::dial
AndThenDial(self, addr, env) ==
    LET upgrade == self.upgrade
        r == BaseDial(self.transport, addr, env) IN
    IF r.ok
    THEN [ok |-> TRUE, future |-> Some(AndThenFuture(upgrade, Dialer, addr)),
          builder |-> None, addr |-> addr, base |-> r, calls |-> <<>>]
    ELSE [ok |-> FALSE, future |-> None,
          builder |-> Some([transport |-> r.trans, upgrade |-> upgrade]),
          addr |-> r.addr, base |-> r, calls |-> <<>>]

\* AndThen::listen_on.  The listener it returns is the base's stream mapped
\* by a closure that owns the upgrade.
AndThenListenOn(self, addr, env) ==
    LET upgrade == self.upgrade
        r == BaseListenOn(self.transport, addr, env) IN
    IF r.ok
    THEN [ok |-> TRUE, stream |-> Some([upgrade |-> upgrade]),
          new_addr |-> r.new_addr, builder |-> None, addr |-> addr,
          base |-> r, calls |-> <<>>]
    ELSE [ok |-> FALSE, stream |-> None, new_addr |-> r.new_addr,
          builder |-> Some([transport |-> r.trans, upgrade |-> upgrade]),
          addr |-> r.addr, base |-> r, calls |-> <<>>]

\* The closure of listen_on with the role of dial.
ListenMapItemAsDialer(upgrade, item) ==
    [future |-> AndThenFuture(upgrade, Dialer, item.client_addr),
     addr |-> item.client_addr, conn |-> item.conn]

\* The closure of listen_on: one item (connection, client_addr) of the base
\* stream becomes (connection.and_then(upgrade as Listener at client_addr),
\* client_addr).
ListenMapItem(upgrade, item) ==
    [future |-> AndThenFuture(upgrade, Listener, item.client_addr),
     addr |-> item.client_addr, conn |-> item.conn]

\* Stream::map turning the end of the base stream into an error.
ListenMapPollEndIsErr(stream, p) ==
    [kind |-> IF p.kind = "End" THEN "Err" ELSE p.kind,
     item |-> IF p.kind = "Item"
              THEN Some(ListenMapItem(stream.upgrade, p.item[1]))
              ELSE None]

\* Stream::map: one poll of the mapped stream, p the base stream's outcome.
ListenMapPoll(stream, p) ==
    [kind |-> p.kind,
     item |-> IF p.kind = "Item"
              THEN Some(ListenMapItem(stream.upgrade, p.item[1]))
              ELSE None]

\* AndThen::nat_traversal answering with the observed address itself.
AndThenNatTraversalObserved(self, server, observed) ==
    [res |-> Some(observed), calls |-> <<>>]

\* AndThen::nat_traversal
AndThenNatTraversal(self, server, observed) ==
    [res |-> BaseNatTraversal(self.transport, server, observed), calls |-> <<>>]

\* The closure of next_incoming with the role of dial.
NextIncomingMapItemAsDialer(upgrade, item) ==
    [future |-> AndThenFuture(upgrade, Dialer, item.client_addr),
     addr |-> item.client_addr, conn |-> item.conn]

\* The closure of next_incoming: the (future, client_addr) the base's future
\* resolves to becomes (future.and_then(upgrade as Listener at client_addr),
\* client_addr).
NextIncomingMapItem(upgrade, item) ==
    [future |-> AndThenFuture(upgrade, Listener, item.client_addr),
     addr |-> item.client_addr, conn |-> item.conn]

\* AndThen::next_incoming: the base's incoming future mapped by a closure that
\* owns the upgrade.  The AndThen is consumed.
AndThenNextIncoming(self) ==
    [future |-> [upgrade |-> self.upgrade], builder |-> None, calls |-> <<>>]

\* Future::map: one poll of the mapped incoming future, p the outcome of the
\* base's incoming future.
NextIncomingPoll(fut, p) ==
    [kind |-> p.kind,
     item |-> IF p.kind = "Ready"
              THEN Some(NextIncomingMapItem(fut.upgrade, p.item[1]))
              ELSE None]

\* ------------------------------------- EitherListenStream, EitherFuture
\* EitherListenStream::poll dropping the item it was given.
EitherListenStreamPollDrops(tag, p) ==
    [kind |-> IF p.kind = "Item" THEN "NotReady" ELSE p.kind, item |-> None]

\* EitherListenStream::poll, p the outcome of the inner stream's poll.
EitherListenStreamPoll(tag, p) ==
    [kind |-> p.kind,
     item |-> IF p.kind = "Item"
              THEN Some([future |-> [tag |-> tag, inner |-> p.item[1].future],
                         addr |-> p.item[1].addr, conn |-> p.item[1].conn])
              ELSE None]

\* EitherFuture::poll wrapping every output in EitherOutput::First.
EitherFuturePollAlwaysFirst(tag, r) ==
    [kind |-> r.kind, tag |-> IF r.kind = "Ready" THEN First ELSE "-",
     val |-> r.val, err |-> r.err]

\* EitherFuture::poll, r the outcome of the inner future's poll.
EitherFuturePoll(tag, r) ==
    [kind |-> r.kind, tag |-> IF r.kind = "Ready" THEN tag ELSE "-",
     val |-> r.val, err |-> r.err]

\* ------------------------------------------------- the caller's futures
NoPoll == [kind |-> "-", val |-> NoOutput, err |-> NoErr]
NoEPoll == [kind |-> "-", tag |-> "-", val |-> NoOutput, err |-> NoErr]

\* A future the caller holds: an EitherFuture around an AndThen future, with
\* what the base connection future (a) and the upgrade's future (b) last
\* answered ("-": not polled yet), the outcome of the last poll at the AndThen
\* layer (out) and at the Either layer (eout), and every upgrade call made.
NewConn(efut, addr, conn) ==
    [tag |-> efut.tag, fut |-> efut.inner, addr |-> addr, conn |-> conn,
     a |-> "-", b |-> "-", out |-> NoPoll, eout |-> NoEPoll, calls |-> <<>>]

\* One poll of the caller's future: EitherFuture::poll over the chained
\* future's poll.
PollConn(c, a, b) ==
    LET r == ChainPoll(c.fut, a, b, c.conn) IN
    [c EXCEPT !.fut = r.fut,
              !.a = IF c.fut.st = "First" THEN a ELSE c.a,
              !.b = b,
              !.out = [kind |-> r.kind, val |-> r.val, err |-> r.err],
              !.eout = EitherFuturePoll(c.tag, r),
              !.calls = c.calls \o r.calls]

\* What the collaborators may answer to one poll of a chained future in
\* state st: the base future alone, or the base future ready and then the
\* upgrade's future, or (second stage) the upgrade's future alone.
PollAnswers(st) ==
    IF st = "First"
    THEN {[a |-> "NotReady", b |-> "-"], [a |-> "Err", b |-> "-"]}
         \cup {[a |-> "Ready", b |-> b] : b \in {"NotReady", "Ready", "Err"}}
    ELSE {[a |-> "-", b |-> b] : b \in {"NotReady", "Ready", "Err"}}

Envs == [trans : Transports, addr : Addrs]

\* ------------------------------------------- two chained upgrades
\* AndThen::dial where the base is itself an AndThen (T = AndThen<Base, C1>):
\* base.and_then(security).and_then(multiplex).  The future it returns is
\* the inner AndThen's future chained with the outer closure.
AndThenDialOver(self, addr, env) ==
    LET upgrade == self.upgrade
        r == AndThenDial(self.transport, addr, env) IN
    IF r.ok
    THEN [ok |-> TRUE,
          future |-> Some([inner |-> r.future[1],
                           outer |-> AndThenFuture(upgrade, Dialer, addr)]),
          builder |-> None, addr |-> addr, base |-> r, calls |-> <<>>]
    ELSE [ok |-> FALSE, future |-> None,
          builder |-> Some([transport |-> r.builder[1], upgrade |-> upgrade]),
          addr |-> r.addr, base |-> r, calls |-> <<>>]

\* PipePoll with the outer closure run on whatever the inner future resolved
\* to, an error included.
PipePollThen(f, a, b1, b2, conn) ==
    LET r1 == IF f.outer.st = "First"
              THEN ChainPoll(f.inner, a, b1, conn)
              ELSE [fut |-> f.inner, kind |-> "-",
                    val |-> Output(f.inner.upgrade, conn), err |-> NoErr,
                    calls |-> <<>>]
        r2 == ChainPoll(f.outer, IF r1.kind = "Err" THEN "Ready" ELSE r1.kind,
                        b2, Output(f.inner.upgrade, conn)) IN
    [fut |-> [inner |-> r1.fut, outer |-> r2.fut],
     kind |-> r2.kind, val |-> r2.val,
     err |-> IF r1.kind = "Err" THEN r1.err ELSE r2.err,
     calls |-> r1.calls \o r2.calls]

\* One poll of the future of a dial through two chained upgrades.  While the
\* outer chain is in its first stage it polls the inner AndThen future (a,
\* b1: the base future, the first upgrade's future); an error of the inner
\* future is the outer future's error; once the inner future is ready the
\* outer closure runs on its output and the second upgrade's future (b2) is
\* polled.
PipePoll(f, a, b1, b2, conn) ==
    LET r1 == IF f.outer.st = "First"
              THEN ChainPoll(f.inner, a, b1, conn)
              ELSE [fut |-> f.inner, kind |-> "-",
                    val |-> Output(f.inner.upgrade, conn), err |-> NoErr,
                    calls |-> <<>>]
        r2 == ChainPoll(f.outer, r1.kind, b2, Output(f.inner.upgrade, conn)) IN
    [fut |-> [inner |-> r1.fut, outer |-> r2.fut],
     kind |-> r2.kind, val |-> r2.val,
     err |-> IF r1.kind = "Err" THEN r1.err ELSE r2.err,
     calls |-> r1.calls \o r2.calls]

\* What the collaborators may answer to one poll of that future: the second
\* upgrade's future is polled only once the inner future is ready.
PipeAnswers(f) ==
    IF f.outer.st = "First"
    THEN {[a |-> o.a, b1 |-> o.b, b2 |-> b2] :
             o \in {x \in PollAnswers(f.inner.st) : x.b # "Ready"}, b2 \in {"-"}}
         \cup {[a |-> o.a, b1 |-> o.b, b2 |-> b2] :
                 o \in {x \in PollAnswers(f.inner.st) : x.b = "Ready"},
                 b2 \in {"NotReady", "Ready", "Err"}}
    ELSE {[a |-> "-", b1 |-> "-", b2 |-> b2] : b2 \in {"NotReady", "Ready", "Err"}}

AllPipeAnswers ==
    [a : {"-", "NotReady", "Ready", "Err"}, b1 : {"-", "NotReady", "Ready", "Err"},
     b2 : {"-", "NotReady", "Ready", "Err"}]

\* ------------------------------------------------------------- actions
NoLast == [base |-> "-", mapped |-> "-", outer |-> "-"]

InitTransport ==
    /\ \E t \in Transports, c \in Upgrades :
          /\ builder = Some(and_then(t, c))
          /\ built = [upgrade |-> c]
    /\ ret = None
    /\ dial = None
    /\ listener = None
    /\ items = <<>>
    /\ incoming = None
    /\ pipe = None
    /\ nat = None

NoTransport ==
    /\ builder = None
    /\ built = [upgrade |-> 0]
    /\ ret = None
    /\ dial = None
    /\ listener = None
    /\ items = <<>>
    /\ incoming = None
    /\ pipe = None
    /\ nat = None

Rejection(op, self, addr, r) ==
    Some([op |-> op, self |-> self, req |-> addr,
          base |-> [trans |-> r.base.trans, addr |-> r.base.addr],
          out |-> [builder |-> r.builder, addr |-> r.addr],
          calls |-> r.calls])

\* The caller dials addr on the AndThen it owns.
Dial(addr, env, tag) ==
    /\ component = "transport"
    /\ builder # None
    /\ LET r == AndThenDial(builder[1], addr, env) IN
          /\ builder' = r.builder
          /\ IF r.ok
             THEN /\ dial' = Some([cf |-> NewConn([tag |-> tag, inner |-> r.future[1]],
                                                  addr, 0),
                                   req |-> addr, resolved |-> r.base.resolved,
                                   retry |-> ret # None])
                  /\ ret' = None
             ELSE /\ dial' = None
                  /\ ret' = Rejection("dial", builder[1], addr, r)
    /\ nat' = None
    /\ UNCHANGED <<component, built, listener, items, incoming, pipe, evars>>

\* The caller listens on addr with the AndThen it owns.
ListenOn(addr, env, tag) ==
    /\ component = "transport"
    /\ builder # None
    /\ LET r == AndThenListenOn(builder[1], addr, env) IN
          /\ builder' = r.builder
          /\ IF r.ok
             THEN /\ listener' = Some([stream |-> r.stream[1], tag |-> tag,
                                       bound |-> r.new_addr, ended |-> FALSE,
                                       reported |-> <<>>, last |-> NoLast])
                  /\ ret' = None
             ELSE /\ listener' = None
                  /\ ret' = Rejection("listen_on", builder[1], addr, r)
    /\ nat' = None
    /\ UNCHANGED <<component, built, dial, items, incoming, pipe, evars>>

\* The caller polls the dial future.
PollDial(o) ==
    /\ component = "transport"
    /\ dial # None
    /\ dial[1].cf.fut.st # "Done"
    /\ o \in PollAnswers(dial[1].cf.fut.st)
    /\ dial' = Some([dial[1] EXCEPT !.cf = PollConn(dial[1].cf, o.a, o.b)])
    /\ UNCHANGED <<component, builder, built, ret, listener, items, incoming, pipe, nat, evars>>

\* The outcomes the base listener may give on one poll.
BasePolls(l) ==
    {[kind |-> k, item |-> None] : k \in {"NotReady", "End", "Err"}}
    \cup (IF Len(l.reported) < MaxIncoming
          THEN {[kind |-> "Item",
                 item |-> Some([conn |-> Len(l.reported) + 1, client_addr |-> ca])]
                : ca \in Addrs}
          ELSE {})

\* The caller polls the listener: EitherListenStream over the mapped stream
\* over the base stream.
PollListener ==
    /\ component = "transport"
    /\ listener # None
    /\ ~listener[1].ended
    /\ \E p \in BasePolls(listener[1]) :
          LET l == listener[1]
              m == ListenMapPoll(l.stream, p)
              e == EitherListenStreamPoll(l.tag, m) IN
          /\ listener' = Some([l EXCEPT
                !.ended = (e.kind = "End"),
                !.reported = IF p.kind = "Item"
                             THEN Append(l.reported, p.item[1]) ELSE l.reported,
                !.last = [base |-> p.kind, mapped |-> m.kind, outer |-> e.kind]])
          /\ items' = IF e.kind = "Item"
                      THEN Append(items, NewConn(e.item[1].future, e.item[1].addr,
                                                 e.item[1].conn))
                      ELSE items
    /\ UNCHANGED <<component, builder, built, ret, dial, incoming, pipe, nat, evars>>

\* PollItem where an item's failure is an error of the listener's stream,
\* which ends it.
PollItemFailsListener(i, o) ==
    /\ component = "transport"
    /\ i \in 1..Len(items)
    /\ items[i].fut.st # "Done"
    /\ o \in PollAnswers(items[i].fut.st)
    /\ items' = [items EXCEPT ![i] = PollConn(items[i], o.a, o.b)]
    /\ listener' = IF PollConn(items[i], o.a, o.b).out.kind = "Err"
                   THEN Some([listener[1] EXCEPT !.ended = TRUE,
                                                 !.last = [base |-> "-", mapped |-> "Err",
                                                           outer |-> "Err"]])
                   ELSE listener
    /\ UNCHANGED <<component, builder, built, ret, dial, incoming, pipe, nat, evars>>

\* The caller polls the future of the i-th item.
PollItem(i, o) ==
    /\ component = "transport"
    /\ i \in 1..Len(items)
    /\ items[i].fut.st # "Done"
    /\ o \in PollAnswers(items[i].fut.st)
    /\ items' = [items EXCEPT ![i] = PollConn(items[i], o.a, o.b)]
    /\ UNCHANGED <<component, builder, built, ret, dial, listener, incoming, pipe, nat, evars>>

\* The outcomes the base's incoming future may give on one poll.
BaseIncomingPolls ==
    {[kind |-> k, item |-> None] : k \in {"NotReady", "Err"}}
    \cup {[kind |-> "Ready", item |-> Some([conn |-> 1, client_addr |-> ca])]
          : ca \in Addrs}

\* The caller asks the AndThen it owns (over a muxed base) for the next
\* incoming substream.
NextIncoming(tag) ==
    /\ component = "transport"
    /\ builder # None
    /\ LET r == AndThenNextIncoming(builder[1]) IN
          /\ builder' = r.builder
          /\ incoming' = Some([fut |-> r.future, tag |-> tag, base |-> None,
                               last |-> "-", item |-> None, calls |-> r.calls])
    /\ ret' = None
    /\ nat' = None
    /\ UNCHANGED <<component, built, dial, listener, items, pipe, evars>>

\* The caller polls the incoming future.
PollIncoming(p) ==
    /\ component = "transport"
    /\ incoming # None
    /\ incoming[1].last \in {"-", "NotReady"}
    /\ p \in BaseIncomingPolls
    /\ LET m == NextIncomingPoll(incoming[1].fut, p) IN
          incoming' = Some([incoming[1] EXCEPT
                !.base = p.item,
                !.last = m.kind,
                !.item = IF m.kind = "Ready"
                         THEN Some(NewConn([tag |-> incoming[1].tag,
                                            inner |-> m.item[1].future],
                                           m.item[1].addr, m.item[1].conn))
                         ELSE None])
    /\ UNCHANGED <<component, builder, built, ret, dial, listener, items, pipe, nat, evars>>

\* The caller polls the future the incoming future resolved to.
PollIncomingItem(o) ==
    /\ component = "transport"
    /\ incoming # None
    /\ incoming[1].item # None
    /\ incoming[1].item[1].fut.st # "Done"
    /\ o \in PollAnswers(incoming[1].item[1].fut.st)
    /\ incoming' = Some([incoming[1] EXCEPT
                !.item = Some(PollConn(incoming[1].item[1], o.a, o.b))])
    /\ UNCHANGED <<component, builder, built, ret, dial, listener, items, pipe, nat, evars>>

\* The caller chains a second upgrade on the AndThen it owns.
AndThenAgain(c2) ==
    /\ component = "transport"
    /\ builder # None
    /\ pipe' = Some([builder |-> Some(and_then(builder[1], c2)), fut |-> None,
                     req |-> 0, a |-> "-", b1 |-> "-", b2 |-> "-",
                     out |-> [kind |-> "-", err |-> NoErr], calls |-> <<>>])
    /\ builder' = None
    /\ ret' = None
    /\ nat' = None
    /\ UNCHANGED <<component, built, dial, listener, items, incoming, evars>>

\* The caller dials addr on the transport of two chained upgrades.
DialPipe(addr, env) ==
    /\ component = "transport"
    /\ pipe # None
    /\ pipe[1].builder # None
    /\ LET r == AndThenDialOver(pipe[1].builder[1], addr, env) IN
          pipe' = Some([pipe[1] EXCEPT !.builder = r.builder,
                                       !.fut = r.future,
                                       !.req = IF r.ok THEN addr ELSE 0,
                                       !.calls = r.calls])
    /\ UNCHANGED <<component, builder, built, ret, dial, listener, items, incoming, nat, evars>>

\* The caller polls the future of that dial.
PollPipe(o) ==
    /\ component = "transport"
    /\ pipe # None
    /\ pipe[1].fut # None
    /\ pipe[1].fut[1].outer.st # "Done"
    /\ o \in PipeAnswers(pipe[1].fut[1])
    /\ LET f == pipe[1].fut[1]
           r == PipePoll(f, o.a, o.b1, o.b2, 0) IN
          pipe' = Some([pipe[1] EXCEPT
                !.fut = Some(r.fut),
                !.a = IF o.a # "-" THEN o.a ELSE pipe[1].a,
                !.b1 = IF o.b1 # "-" THEN o.b1 ELSE pipe[1].b1,
                !.b2 = IF o.b2 # "-" THEN o.b2 ELSE pipe[1].b2,
                !.out = [kind |-> r.kind, err |-> r.err],
                !.calls = pipe[1].calls \o r.calls])
    /\ UNCHANGED <<component, builder, built, ret, dial, listener, items, incoming, nat, evars>>

\* The caller asks the AndThen it owns (by reference) for the address a peer
\* could dial back.
NatTraversal(server, observed) ==
    /\ component = "transport"
    /\ builder # None
    /\ LET r == AndThenNatTraversal(builder[1], server, observed) IN
          nat' = Some([self |-> builder[1], server |-> server,
                       observed |-> observed, out |-> r.res, calls |-> r.calls])
    /\ UNCHANGED <<component, builder, built, ret, dial, listener, items, incoming, pipe, evars>>

Answers == PollAnswers("First") \cup PollAnswers("Second")

\* ------------------------------------------------- the inner muxers
\* A StreamMuxer as the wrapper's inner value: the ids it has given out
\* (1..next), its pending outbound requests, its open substreams, and
\* whether it stopped offering inbound / allowing outbound substreams.
Ids == 1..MaxIds
NewMuxer == [next |-> 0, pending |-> {}, open |-> {}, inClosed |-> FALSE,
             outClosed |-> FALSE]

Res(kind, val) == [kind |-> kind, val |-> val]
NoRes == [kind |-> "-", tag |-> "-", val |-> 0]

\* StreamMuxer::poll_inbound of the inner muxer, ans the remote's doing.
InnerPollInbound(x, ans) ==
    IF x.inClosed THEN [st |-> x, res |-> Res("None", 0)]
    ELSE IF ans = "Some" /\ x.next < MaxIds
    THEN [st |-> [x EXCEPT !.next = x.next + 1, !.open = x.open \cup {x.next + 1}],
          res |-> Res("Some", x.next + 1)]
    ELSE [st |-> x, res |-> Res(IF ans = "Some" THEN "NotReady" ELSE ans, 0)]

\* StreamMuxer::open_outbound
InnerOpenOutbound(x) ==
    [st |-> [x EXCEPT !.next = x.next + 1, !.pending = x.pending \cup {x.next + 1}],
     res |-> Res("Handle", x.next + 1)]

\* StreamMuxer::poll_outbound: ready consumes the request
InnerPollOutbound(x, h, ans) ==
    IF x.outClosed THEN [st |-> x, res |-> Res("None", 0)]
    ELSE IF ans = "Some"
    THEN [st |-> [x EXCEPT !.pending = x.pending \ {h}, !.open = x.open \cup {h}],
          res |-> Res("Some", h)]
    ELSE [st |-> x, res |-> Res(ans, 0)]

\* StreamMuxer::destroy_outbound
InnerDestroyOutbound(x, h) ==
    [st |-> [x EXCEPT !.pending = x.pending \ {h}], res |-> Res("Unit", 0)]

\* StreamMuxer::read_substream, write_substream, flush_substream,
\* shutdown_substream: the substream's answer, ans = <<kind, count>>
InnerSubstreamIo(x, sub, ans) == [st |-> x, res |-> Res(ans[1], ans[2])]

\* StreamMuxer::destroy_substream
InnerDestroySubstream(x, sub) ==
    [st |-> [x EXCEPT !.open = x.open \ {sub}], res |-> Res("Unit", 0)]

\* StreamMuxer::close_inbound, close_outbound
InnerCloseInbound(x) == [st |-> [x EXCEPT !.inClosed = TRUE], res |-> Res("Unit", 0)]
InnerCloseOutbound(x) == [st |-> [x EXCEPT !.outClosed = TRUE], res |-> Res("Unit", 0)]

\* --------------------------------- impl StreamMuxer for EitherOutput
\* The case of EitherOutbound that goes with a case of EitherOutput
OutboundTag(tag) == IF tag = First THEN "A" ELSE "B"
OtherTag(tag) == IF tag = First THEN Second ELSE First

\* A call forwarded to the inner muxer (r: what the inner call returned);
\* with wrap, a substream it produced is wrapped in the case wrap.
Forwarded(op, r, wrap) ==
    [panic |-> FALSE, inner |-> r.st,
     res |-> [kind |-> r.res.kind,
              tag |-> IF r.res.kind \in {"Some", "Handle"} THEN wrap ELSE "-",
              val |-> r.res.val],
     calls |-> <<op>>]

\* panic!("Wrong API usage")
WrongApiUsage(self) ==
    [panic |-> TRUE, inner |-> self.inner, res |-> NoRes, calls |-> <<>>]

EitherPollInbound(self, ans) ==
    CASE self.tag = First ->
            Forwarded("poll_inbound", InnerPollInbound(self.inner, ans), First)
      [] self.tag = Second ->
            Forwarded("poll_inbound", InnerPollInbound(self.inner, ans), Second)

\* open_outbound handing out the handle in the other case of EitherOutbound.
EitherOpenOutboundSwapped(self) ==
    CASE self.tag = First ->
            Forwarded("open_outbound", InnerOpenOutbound(self.inner), "B")
      [] self.tag = Second ->
            Forwarded("open_outbound", InnerOpenOutbound(self.inner), "A")

EitherOpenOutbound(self) ==
    CASE self.tag = First ->
            Forwarded("open_outbound", InnerOpenOutbound(self.inner), "A")
      [] self.tag = Second ->
            Forwarded("open_outbound", InnerOpenOutbound(self.inner), "B")

EitherPollOutbound(self, substream, ans) ==
    CASE self.tag = First /\ substream.tag = "A" ->
            Forwarded("poll_outbound",
                      InnerPollOutbound(self.inner, substream.id, ans), First)
      [] self.tag = Second /\ substream.tag = "B" ->
            Forwarded("poll_outbound",
                      InnerPollOutbound(self.inner, substream.id, ans), Second)
      [] OTHER -> WrongApiUsage(self)

\* destroy_outbound dropping the handle without telling the inner muxer.
EitherDestroyOutboundLeaks(self, substream) ==
    IF substream.tag = OutboundTag(self.tag)
    THEN [panic |-> FALSE, inner |-> self.inner,
          res |-> [kind |-> "Unit", tag |-> "-", val |-> 0],
          calls |-> <<"destroy_outbound">>]
    ELSE WrongApiUsage(self)

EitherDestroyOutbound(self, substream) ==
    CASE self.tag = First ->
            IF substream.tag = "A"
            THEN Forwarded("destroy_outbound",
                           InnerDestroyOutbound(self.inner, substream.id), "-")
            ELSE WrongApiUsage(self)
      [] self.tag = Second ->
            IF substream.tag = "B"
            THEN Forwarded("destroy_outbound",
                           InnerDestroyOutbound(self.inner, substream.id), "-")
            ELSE WrongApiUsage(self)

\* read_substream, write_substream, flush_substream, shutdown_substream (op)
EitherSubstreamIo(op, self, substream, ans) ==
    CASE self.tag = First /\ substream.tag = First ->
            Forwarded(op, InnerSubstreamIo(self.inner, substream.id, ans), "-")
      [] self.tag = Second /\ substream.tag = Second ->
            Forwarded(op, InnerSubstreamIo(self.inner, substream.id, ans), "-")
      [] OTHER -> WrongApiUsage(self)

\* destroy_substream forwarding whatever the case of the substream.
EitherDestroySubstreamAnyCase(self, substream) ==
    Forwarded("destroy_substream", InnerDestroySubstream(self.inner, substream.id), "-")

EitherDestroySubstream(self, substream) ==
    CASE self.tag = First ->
            IF substream.tag = First
            THEN Forwarded("destroy_substream",
                           InnerDestroySubstream(self.inner, substream.id), "-")
            ELSE WrongApiUsage(self)
      [] self.tag = Second ->
            IF substream.tag = Second
            THEN Forwarded("destroy_substream",
                           InnerDestroySubstream(self.inner, substream.id), "-")
            ELSE WrongApiUsage(self)

\* close_inbound forwarding to close_outbound.
EitherCloseInboundClosesOutbound(self) ==
    CASE self.tag = First ->
            Forwarded("close_inbound", InnerCloseOutbound(self.inner), "-")
      [] self.tag = Second ->
            Forwarded("close_inbound", InnerCloseOutbound(self.inner), "-")

EitherCloseInbound(self) ==
    CASE self.tag = First ->
            Forwarded("close_inbound", InnerCloseInbound(self.inner), "-")
      [] self.tag = Second ->
            Forwarded("close_inbound", InnerCloseInbound(self.inner), "-")

EitherCloseOutbound(self) ==
    CASE self.tag = First ->
            Forwarded("close_outbound", InnerCloseOutbound(self.inner), "-")
      [] self.tag = Second ->
            Forwarded("close_outbound", InnerCloseOutbound(self.inner), "-")

\* --------------------------------------------- the muxer's caller
NoLastCall == [op |-> "-", arg |-> 0, outer |-> NoRes, direct |-> Res("-", 0),
               calls |-> <<>>]

InitMuxer ==
    /\ \E tag \in Tags : wrapper = [tag |-> tag, inner |-> NewMuxer]
    /\ twin = NewMuxer
    /\ handles = {}
    /\ substreams = {}
    /\ last = NoLastCall
    /\ panicked = FALSE
    /\ misused = FALSE

NoEither ==
    /\ wrapper = [tag |-> "-", inner |-> 0]
    /\ twin = 0
    /\ handles = {}
    /\ substreams = {}
    /\ last = NoLastCall
    /\ panicked = FALSE
    /\ misused = FALSE

\* The handles and substreams of the other case, which another EitherOutput
\* muxer of the same type gives out.
ForeignHandles == {[tag |-> OutboundTag(OtherTag(wrapper.tag)), id |-> i] : i \in Ids}
ForeignSubstreams == {[tag |-> OtherTag(wrapper.tag), id |-> i] : i \in Ids}

\* The effect of one call on the wrapper, r what it did and d what the same
\* call does on the twin; a panic ends the behaviour, the twin not called.
Called(op, arg, r, d) ==
    /\ wrapper' = [wrapper EXCEPT !.inner = r.inner]
    /\ twin' = IF r.panic THEN twin ELSE d.st
    /\ last' = [op |-> op, arg |-> arg, outer |-> r.res,
                direct |-> IF r.panic THEN Res("-", 0) ELSE d.res, calls |-> r.calls]
    /\ panicked' = r.panic

\* What the caller holds after a call: the handle or substream it produced
\* is added, the one it gave away or saw resolved is removed.
Produced(r, kind) ==
    IF ~r.panic /\ r.res.kind = kind
    THEN {[tag |-> r.res.tag, id |-> r.res.val]} ELSE {}

PollInbound(ans) ==
    /\ component = "muxer" /\ ~panicked
    /\ LET r == EitherPollInbound(wrapper, ans) IN
          /\ Called("poll_inbound", 0, r, InnerPollInbound(twin, ans))
          /\ substreams' = substreams \cup Produced(r, "Some")
    /\ UNCHANGED <<component, tvars, handles, misused>>

OpenOutbound ==
    /\ component = "muxer" /\ ~panicked
    /\ wrapper.inner.next < MaxIds
    /\ LET r == EitherOpenOutbound(wrapper) IN
          /\ Called("open_outbound", 0, r, InnerOpenOutbound(twin))
          /\ handles' = handles \cup Produced(r, "Handle")
    /\ UNCHANGED <<component, tvars, substreams, misused>>

PollOutbound(h, ans) ==
    /\ component = "muxer" /\ ~panicked
    /\ h \in handles \cup ForeignHandles
    /\ LET r == EitherPollOutbound(wrapper, h, ans) IN
          /\ Called("poll_outbound", h.id, r, InnerPollOutbound(twin, h.id, ans))
          /\ substreams' = substreams \cup Produced(r, "Some")
          /\ handles' = IF Produced(r, "Some") # {} THEN handles \ {h} ELSE handles
    /\ misused' = (misused \/ h \notin handles)
    /\ UNCHANGED <<component, tvars>>

DestroyOutbound(h) ==
    /\ component = "muxer" /\ ~panicked
    /\ h \in handles \cup ForeignHandles
    /\ LET r == EitherDestroyOutbound(wrapper, h) IN
          /\ Called("destroy_outbound", h.id, r, InnerDestroyOutbound(twin, h.id))
          /\ handles' = handles \ {h}
    /\ misused' = (misused \/ h \notin handles)
    /\ UNCHANGED <<component, tvars, substreams>>

SubstreamOps == {"read_substream", "write_substream", "flush_substream",
                 "shutdown_substream"}

\* What a substream may answer: a count, would-block, an error; for flush
\* and shutdown done, not yet, an error.
IoAnswers(op) ==
    IF op \in {"read_substream", "write_substream"}
    THEN {<<"Ok", 0>>, <<"Ok", 1>>, <<"WouldBlock", 0>>, <<"Err", 0>>}
    ELSE {<<"Ok", 0>>, <<"NotReady", 0>>, <<"Err", 0>>}

SubstreamIo(op, sub, ans) ==
    /\ component = "muxer" /\ ~panicked
    /\ sub \in substreams \cup ForeignSubstreams
    /\ ans \in IoAnswers(op)
    /\ LET r == EitherSubstreamIo(op, wrapper, sub, ans) IN
          Called(op, sub.id, r, InnerSubstreamIo(twin, sub.id, ans))
    /\ misused' = (misused \/ sub \notin substreams)
    /\ UNCHANGED <<component, tvars, handles, substreams>>

DestroySubstream(sub) ==
    /\ component = "muxer" /\ ~panicked
    /\ sub \in substreams \cup ForeignSubstreams
    /\ LET r == EitherDestroySubstream(wrapper, sub) IN
          /\ Called("destroy_substream", sub.id, r, InnerDestroySubstream(twin, sub.id))
          /\ substreams' = substreams \ {sub}
    /\ misused' = (misused \/ sub \notin substreams)
    /\ UNCHANGED <<component, tvars, handles>>

CloseInbound ==
    /\ component = "muxer" /\ ~panicked
    /\ Called("close_inbound", 0, EitherCloseInbound(wrapper), InnerCloseInbound(twin))
    /\ UNCHANGED <<component, tvars, handles, substreams, misused>>

CloseOutbound ==
    /\ component = "muxer" /\ ~panicked
    /\ Called("close_outbound", 0, EitherCloseOutbound(wrapper), InnerCloseOutbound(twin))
    /\ UNCHANGED <<component, tvars, handles, substreams, misused>>

AllHandles == {[tag |-> t, id |-> i] : t \in {"A", "B"}, i \in Ids}
AllSubstreams == {[tag |-> t, id |-> i] : t \in Tags, i \in Ids}
AllIoAnswers == IoAnswers("read_substream") \cup IoAnswers("flush_substream")

\* ------------------------------------------- the inner byte streams
\* A Read + AsyncWrite value as the wrapper's inner value: the bytes left to
\* read, the bytes written, how many of them are flushed, write side shut.
NewStream == [rd |-> MaxBytes, wr |-> 0, fl |-> 0, shut |-> FALSE]

Min(a, b) == IF a < b THEN a ELSE b

\* Read::read into a buffer of n bytes; Ok(0) is the end of the data.
InnerRead(x, n, ans) ==
    IF ans = "Ok"
    THEN [st |-> [x EXCEPT !.rd = x.rd - Min(n, x.rd)], res |-> Res("Ok", Min(n, x.rd))]
    ELSE [st |-> x, res |-> Res(ans, 0)]

\* Write::write of n bytes
InnerWrite(x, n, ans) ==
    IF x.shut THEN [st |-> x, res |-> Res("Err", 0)]
    ELSE IF ans = "Ok"
    THEN [st |-> [x EXCEPT !.wr = x.wr + Min(n, MaxBytes - x.wr)],
          res |-> Res("Ok", Min(n, MaxBytes - x.wr))]
    ELSE [st |-> x, res |-> Res(ans, 0)]

\* Write::flush
InnerFlush(x, ans) ==
    IF ans = "Ok"
    THEN [st |-> [x EXCEPT !.fl = x.wr], res |-> Res("Ok", 0)]
    ELSE [st |-> x, res |-> Res(ans, 0)]

\* AsyncWrite::shutdown
InnerShutdown(x, ans) ==
    IF ans = "Ready"
    THEN [st |-> [x EXCEPT !.shut = TRUE], res |-> Res("Ready", 0)]
    ELSE [st |-> x, res |-> Res(ans, 0)]

\* ------------------------- impl Read, Write, AsyncWrite for EitherOutput
EitherRead(self, n, ans) ==
    CASE self.tag = First -> Forwarded("read", InnerRead(self.inner, n, ans), "-")
      [] self.tag = Second -> Forwarded("read", InnerRead(self.inner, n, ans), "-")

EitherWrite(self, n, ans) ==
    CASE self.tag = First -> Forwarded("write", InnerWrite(self.inner, n, ans), "-")
      [] self.tag = Second -> Forwarded("write", InnerWrite(self.inner, n, ans), "-")

EitherFlush(self, ans) ==
    CASE self.tag = First -> Forwarded("flush", InnerFlush(self.inner, ans), "-")
      [] self.tag = Second -> Forwarded("flush", InnerFlush(self.inner, ans), "-")

\* shutdown answering by a flush of the inner value.
EitherShutdownFlushes(self, ans) ==
    CASE self.tag = First ->
            Forwarded("shutdown",
                      InnerFlush(self.inner, IF ans = "Ready" THEN "Ok" ELSE ans), "-")
      [] self.tag = Second ->
            Forwarded("shutdown",
                      InnerFlush(self.inner, IF ans = "Ready" THEN "Ok" ELSE ans), "-")

EitherShutdown(self, ans) ==
    CASE self.tag = First -> Forwarded("shutdown", InnerShutdown(self.inner, ans), "-")
      [] self.tag = Second -> Forwarded("shutdown", InnerShutdown(self.inner, ans), "-")

\* ------------------------------------------ the byte stream's caller
InitIo ==
    /\ \E tag \in Tags : wrapper = [tag |-> tag, inner |-> NewStream]
    /\ twin = NewStream
    /\ handles = {}
    /\ substreams = {}
    /\ last = NoLastCall
    /\ panicked = FALSE
    /\ misused = FALSE

Read(n, ans) ==
    /\ component = "io"
    /\ Called("read", n, EitherRead(wrapper, n, ans), InnerRead(twin, n, ans))
    /\ UNCHANGED <<component, tvars, handles, substreams, misused>>

Write(n, ans) ==
    /\ component = "io"
    /\ Called("write", n, EitherWrite(wrapper, n, ans), InnerWrite(twin, n, ans))
    /\ UNCHANGED <<component, tvars, handles, substreams, misused>>

Flush(ans) ==
    /\ component = "io"
    /\ Called("flush", 0, EitherFlush(wrapper, ans), InnerFlush(twin, ans))
    /\ UNCHANGED <<component, tvars, handles, substreams, misused>>

Shutdown(ans) ==
    /\ component = "io"
    /\ Called("shutdown", 0, EitherShutdown(wrapper, ans), InnerShutdown(twin, ans))
    /\ UNCHANGED <<component, tvars, handles, substreams, misused>>

Init ==
    \/ component = "transport" /\ InitTransport /\ NoEither
    \/ component = "muxer" /\ NoTransport /\ InitMuxer
    \/ component = "io" /\ NoTransport /\ InitIo

\* Every step but a poll of the listener.
NextButListener ==
    \/ \E addr \in Addrs, env \in Envs, tag \in Tags : Dial(addr, env, tag)
    \/ \E addr \in Addrs, env \in Envs, tag \in Tags : ListenOn(addr, env, tag)
    \/ \E o \in Answers : PollDial(o)
    \/ \E i \in 1..MaxIncoming, o \in Answers : PollItem(i, o)
    \/ \E tag \in Tags : NextIncoming(tag)
    \/ \E p \in BaseIncomingPolls : PollIncoming(p)
    \/ \E o \in Answers : PollIncomingItem(o)
    \/ \E c2 \in Upgrades : AndThenAgain(c2)
    \/ \E addr \in Addrs, env \in Envs : DialPipe(addr, env)
    \/ \E o \in AllPipeAnswers : PollPipe(o)
    \/ \E server \in Addrs, observed \in Addrs : NatTraversal(server, observed)
    \/ \E ans \in {"NotReady", "Some", "None", "Err"} : PollInbound(ans)
    \/ OpenOutbound
    \/ \E h \in AllHandles, ans \in {"NotReady", "Some", "Err"} : PollOutbound(h, ans)
    \/ \E h \in AllHandles : DestroyOutbound(h)
    \/ \E op \in SubstreamOps, sub \in AllSubstreams, ans \in AllIoAnswers :
          SubstreamIo(op, sub, ans)
    \/ \E sub \in AllSubstreams : DestroySubstream(sub)
    \/ CloseInbound
    \/ CloseOutbound
    \/ \E n \in 1..MaxBytes, ans \in {"Ok", "WouldBlock", "Err"} : Read(n, ans)
    \/ \E n \in 1..MaxBytes, ans \in {"Ok", "WouldBlock", "Err"} : Write(n, ans)
    \/ \E ans \in {"Ok", "WouldBlock", "Err"} : Flush(ans)
    \/ \E ans \in {"Ready", "NotReady", "Err"} : Shutdown(ans)

Next ==
    \/ NextButListener
    \/ PollListener

Spec == Init /\ [][Next]_vars

\* ------------------------------------------------------------ fairness
\* A poll in which the future of the current stage resolves: the base
\* connection future in the first stage, the upgrade's future in the second.
Resolving(st, o) == IF st = "First" THEN o.a # "NotReady" ELSE o.b # "NotReady"

ResolveDial == \E o \in Answers : PollDial(o) /\ Resolving(dial[1].cf.fut.st, o)
ResolveItem(i) == \E o \in Answers : PollItem(i, o) /\ Resolving(items[i].fut.st, o)
ResolveIncomingItem ==
    \E o \in Answers :
        PollIncomingItem(o) /\ Resolving(incoming[1].item[1].fut.st, o)

\* The steps of Next in behaviours where the base listener reports at most
\* MaxFairIncoming connections.
FairNext ==
    \/ NextButListener
    \/ PollListener /\ Len(listener'[1].reported) <= MaxFairIncoming

\* The caller polls again every future it holds that reported not-ready, and
\* the base connection future and the upgrade's future of each connection
\* resolve in the end.
FairSpec ==
    /\ Init
    /\ [][FairNext]_vars
    /\ WF_vars(ResolveDial)
    /\ \A i \in 1..MaxFairIncoming : WF_vars(ResolveItem(i))
    /\ WF_vars(ResolveIncomingItem)

\* --------------------------------------------------------- properties
\* Every future the caller holds.
Conns == {items[i] : i \in 1..Len(items)}
         \cup (IF dial # None THEN {dial[1].cf} ELSE {})
         \cup (IF incoming # None /\ incoming[1].item # None
               THEN {incoming[1].item[1]} ELSE {})

CallsOf(c) == {c.calls[k] : k \in 1..Len(c.calls)}

\* C1: when the base rejects the address of dial or listen_on by returning
\* (T', A'), AndThen returns (AndThen(T', C), A'), the transport and the
\* address as the base returned them and the upgrade C retained, without
\* invoking C; on the returned AndThen a dial or listen_on of an address the
\* base accepts succeeds and applies C.
C1_RejectionRestores ==
    /\ ret # None =>
          /\ ret[1].out.builder = Some(and_then(ret[1].base.trans, ret[1].self.upgrade))
          /\ ret[1].out.addr = ret[1].base.addr
          /\ ret[1].calls = <<>>
          /\ builder = ret[1].out.builder
          /\ dial = None /\ listener = None /\ items = <<>>
    /\ builder # None =>
          /\ builder[1].upgrade = built.upgrade
          /\ \A a \in Addrs, env \in Envs :
                Supports(builder[1].transport, a) =>
                   /\ AndThenDial(builder[1], a, env).ok
                   /\ AndThenDial(builder[1], a, env).future[1].upgrade = built.upgrade
                   /\ AndThenListenOn(builder[1], a, env).ok
                   /\ AndThenListenOn(builder[1], a, env).stream[1].upgrade = built.upgrade
    /\ \A c \in Conns : \A call \in CallsOf(c) : call.upgrade = built.upgrade

\* A dial that succeeded on an AndThen returned by a rejection, and whose
\* future has invoked the upgrade.
C1_Witness ==
    /\ dial # None
    /\ dial[1].retry
    /\ dial[1].cf.calls # <<>>

\* C2: for every item the listener yields, the upgrade is invoked with role
\* Listener and with the remote address yielded alongside the item's future,
\* which is the one the base reported for that item.
C2_ListenerRoleAndAddress ==
    \A i \in 1..Len(items) :
       /\ i <= Len(listener[1].reported)
       /\ items[i].addr = listener[1].reported[i].client_addr
       /\ items[i].a = "Ready" => Len(items[i].calls) = 1
       /\ \A call \in CallsOf(items[i]) :
             /\ call.role = Listener
             /\ call.addr = items[i].addr
             /\ call.conn = listener[1].reported[i].conn

\* The upgrade invoked for an item whose address is neither the bound
\* address nor the address of another item.
C2_Witness ==
    \E i, j \in 1..Len(items) :
       /\ items[i].calls # <<>>
       /\ items[i].addr # listener[1].bound
       /\ items[j].addr # items[i].addr

\* C3: when the base connection future of a dial resolves successfully, the
\* upgrade is invoked with role Dialer and the address passed to dial.
C3_DialRoleAndAddress ==
    dial # None =>
       /\ dial[1].cf.a = "Ready" => Len(dial[1].cf.calls) = 1
       /\ \A call \in CallsOf(dial[1].cf) :
             /\ call.role = Dialer
             /\ call.addr = dial[1].req

\* The upgrade invoked for a dial that the base resolved to another address.
C3_Witness ==
    /\ dial # None
    /\ dial[1].cf.calls # <<>>
    /\ dial[1].resolved # dial[1].req

\* An item whose upgrade failed; an item that resolved to the upgraded output.
UpgradeFailed(c) == c.fut.st = "Done" /\ c.a = "Ready" /\ c.b = "Err"
Upgraded(c) ==
    /\ c.fut.st = "Done"
    /\ c.out.kind = "Ready"
    /\ c.out.val = Output(built.upgrade, c.conn)

\* C4 (state part): every item the base reported is yielded, and an item
\* whose own base future and upgrade succeeded resolves to its upgraded
\* output, whatever happened to the other items.
C4_Inv ==
    /\ listener # None => Len(items) = Len(listener[1].reported)
    /\ \A i \in 1..Len(items) :
          (items[i].fut.st = "Done" /\ items[i].a = "Ready" /\ items[i].b = "Ready")
             => Upgraded(items[i])

\* C4 (step part): the step in which an item's upgrade fails changes neither
\* the listener nor any other item.
C4_Step ==
    \A k \in 1..Len(items) :
       (~UpgradeFailed(items[k]) /\ Len(items') >= k /\ UpgradeFailed(items'[k]))
          => /\ listener' = listener
             /\ Len(items') = Len(items)
             /\ \A j \in 1..Len(items) : j # k => items'[j] = items[j]

\* C4: negotiation isolation.  If the upgrade fails for item k, the listener
\* still yields every item and the upgrades of the other items still
\* succeed, in whatever order the items' futures are polled.
C4_NegotiationIsolation == [](C4_Inv) /\ [][C4_Step]_vars

\* All MaxIncoming items yielded, the first one's upgrade failed, the others'
\* succeeded.
C4_Witness ==
    /\ Len(items) = MaxIncoming
    /\ UpgradeFailed(items[1])
    /\ \A j \in 2..Len(items) : Upgraded(items[j])

Refused(self, r) == r.panic /\ r.calls = <<>> /\ r.inner = self.inner

\* C6: poll_outbound, destroy_outbound, read_substream, write_substream,
\* flush_substream, shutdown_substream and destroy_substream, given a handle
\* or substream whose case differs from the muxer's, panic without any call
\* on the inner muxer, whose state is left as it was.
C6_MismatchPanics ==
    component = "muxer" =>
       /\ misused => panicked
       /\ panicked => (last.calls = <<>> /\ wrapper.inner = twin)
       /\ \A h \in ForeignHandles :
             /\ \A ans \in {"NotReady", "Some", "Err"} :
                   Refused(wrapper, EitherPollOutbound(wrapper, h, ans))
             /\ Refused(wrapper, EitherDestroyOutbound(wrapper, h))
       /\ \A sub \in ForeignSubstreams :
             /\ \A op \in SubstreamOps : \A ans \in IoAnswers(op) :
                   Refused(wrapper, EitherSubstreamIo(op, wrapper, sub, ans))
             /\ Refused(wrapper, EitherDestroySubstream(wrapper, sub))

\* destroy_substream given a substream of the other case whose id is the id
\* of an open substream of the inner muxer: the panic.
C6_Witness ==
    /\ component = "muxer"
    /\ panicked
    /\ last.op = "destroy_substream"
    /\ last.arg \in wrapper.inner.open
    /\ wrapper.inner.pending # {}

\* C7: Either transparency.  The wrapper holding X, driven side by side with
\* X itself by the same calls, gives at every step the outcome X gives, a
\* produced value wrapped in the wrapper's own case, by one inner call per
\* outer call: for read, write, flush, shutdown and the StreamMuxer
\* operations (wrapper against twin), for the poll of a Future (EitherFuture
\* against the future it holds) and of a Stream (EitherListenStream against
\* the stream it holds).
C7_Transparency ==
    /\ (component \in {"muxer", "io"} /\ ~panicked) =>
          /\ wrapper.inner = twin
          /\ last.outer.kind = last.direct.kind
          /\ last.outer.val = last.direct.val
          /\ last.op # "-" => last.calls = <<last.op>>
          /\ last.outer.tag =
                (IF last.outer.kind = "Some" THEN wrapper.tag
                 ELSE IF last.outer.kind = "Handle" THEN OutboundTag(wrapper.tag)
                 ELSE "-")
    /\ \A c \in Conns :
          /\ c.eout.kind = c.out.kind
          /\ c.eout.val = c.out.val
          /\ c.eout.err = c.out.err
          /\ c.eout.tag = (IF c.out.kind = "Ready" THEN c.tag ELSE "-")
    /\ listener # None =>
          /\ listener[1].last.outer = listener[1].last.mapped
          /\ \A i \in 1..Len(items) : items[i].tag = listener[1].tag

\* The wrapper in case Second around a byte stream that was read from,
\* written to and then shut down.
C7_Witness ==
    /\ component = "io"
    /\ wrapper.tag = Second
    /\ last.op = "shutdown"
    /\ wrapper.inner.shut
    /\ wrapper.inner.rd < MaxBytes
    /\ wrapper.inner.wr > 0

\* C8 (state part): with the inbound side closed, poll_inbound gives
\* end-of-data and no substream, while open_outbound and poll_outbound go on
\* working and the open substreams answer as before; with the outbound side
\* closed, poll_inbound goes on yielding substreams.  close_inbound is one
\* call of the inner close_inbound and close_outbound one call of the inner
\* close_outbound, each changing nothing but its own flag.
C8_Inv ==
    (component = "muxer" /\ ~panicked) =>
       LET x == wrapper.inner
           ci == EitherCloseInbound(wrapper)
           co == EitherCloseOutbound(wrapper) IN
       /\ x.inClosed =>
             \A ans \in {"NotReady", "Some", "None", "Err"} :
                /\ EitherPollInbound(wrapper, ans).res.kind = "None"
                /\ EitherPollInbound(wrapper, ans).inner = x
       /\ (x.inClosed /\ ~x.outClosed) =>
             /\ EitherOpenOutbound(wrapper).res.kind = "Handle"
             /\ \A h \in handles :
                   /\ EitherPollOutbound(wrapper, h, "Some").res.kind = "Some"
                   /\ EitherPollOutbound(wrapper, h, "Some").res.val = h.id
       /\ (x.outClosed /\ ~x.inClosed /\ x.next < MaxIds) =>
             EitherPollInbound(wrapper, "Some").res.kind = "Some"
       /\ \A sub \in substreams : \A op \in SubstreamOps : \A ans \in IoAnswers(op) :
             /\ EitherSubstreamIo(op, wrapper, sub, ans).res.kind = ans[1]
             /\ EitherSubstreamIo(op, wrapper, sub, ans).res.val = ans[2]
       /\ ci.calls = <<"close_inbound">>
       /\ ci.inner = [x EXCEPT !.inClosed = TRUE]
       /\ co.calls = <<"close_outbound">>
       /\ co.inner = [x EXCEPT !.outClosed = TRUE]

\* C8 (step part): once closed, a side stays closed, and no step changes the
\* open substreams except the calls that open or destroy one.
C8_Step ==
    component = "muxer" =>
       /\ wrapper.inner.inClosed => wrapper'.inner.inClosed
       /\ wrapper.inner.outClosed => wrapper'.inner.outClosed
       /\ last'.op \in {"close_inbound", "close_outbound"} =>
             /\ wrapper'.inner.open = wrapper.inner.open
             /\ wrapper'.inner.pending = wrapper.inner.pending
             /\ substreams' = substreams
             /\ handles' = handles

\* C8: half-close independence through the Either muxer.
C8_HalfCloseIndependence == [](C8_Inv) /\ [][C8_Step]_vars

\* After close_inbound, with a substream open, an outbound request opened
\* and resolved into a substream.
C8_Witness ==
    /\ component = "muxer"
    /\ wrapper.inner.inClosed
    /\ ~wrapper.inner.outClosed
    /\ last.op = "poll_outbound"
    /\ last.outer.kind = "Some"
    /\ Cardinality(substreams) = 2

\* C9 (state part): the handles and substreams the caller holds are those
\* the inner muxer has pending and open, in the muxer's own case; none is
\* one the inner muxer has destroyed; an outer open or destroy is one inner
\* open or destroy.
C9_Inv ==
    component = "muxer" =>
       /\ {h.id : h \in handles} = wrapper.inner.pending
       /\ {sub.id : sub \in substreams} = wrapper.inner.open
       /\ \A h \in handles : h.tag = OutboundTag(wrapper.tag)
       /\ \A sub \in substreams : sub.tag = wrapper.tag
       /\ wrapper.inner.pending \cap wrapper.inner.open = {}
       /\ wrapper.inner.pending \cup wrapper.inner.open \subseteq 1..wrapper.inner.next
       /\ (~panicked /\ last.op \in {"open_outbound", "destroy_outbound",
                                     "destroy_substream"}) =>
             last.calls = <<last.op>>

\* C9 (step part): a handle leaves the pending requests only by poll_outbound
\* resolving it into an open substream or by destroy_outbound of it; a
\* substream leaves the open substreams only by destroy_substream of it; and
\* what has left never comes back.
C9_Step ==
    component = "muxer" =>
       /\ \A id \in wrapper.inner.pending :
             id \notin wrapper'.inner.pending =>
                \/ last'.op = "poll_outbound" /\ last'.arg = id /\ id \in wrapper'.inner.open
                \/ last'.op = "destroy_outbound" /\ last'.arg = id
       /\ \A id \in wrapper.inner.open :
             id \notin wrapper'.inner.open =>
                last'.op = "destroy_substream" /\ last'.arg = id
       /\ \A id \in 1..wrapper.inner.next :
             id \notin wrapper.inner.pending \cup wrapper.inner.open =>
                id \notin wrapper'.inner.pending \cup wrapper'.inner.open

\* C9: muxer accounting through the Either muxer.
C9_MuxerAccounting == [](C9_Inv) /\ [][C9_Step]_vars

\* Every id given out, one request released by destroy_outbound while a
\* substream resolved from another request is still open.
C9_Witness ==
    /\ component = "muxer"
    /\ ~misused
    /\ wrapper.inner.next = MaxIds
    /\ last.op = "destroy_outbound"
    /\ wrapper.inner.pending = {}
    /\ wrapper.inner.open # {}

\* C10: the listener yields one item per item of the base listener, in the
\* same order and with the same remote address, through the mapped stream
\* and through EitherListenStream; end-of-data, not-ready and errors of the
\* base stream are passed through unchanged.
C10_ListenerOrder ==
    listener # None =>
       /\ Len(items) = Len(listener[1].reported)
       /\ \A i \in 1..Len(items) :
             /\ items[i].conn = listener[1].reported[i].conn
             /\ items[i].conn = i
             /\ items[i].addr = listener[1].reported[i].client_addr
       /\ listener[1].last.mapped = listener[1].last.base
       /\ listener[1].last.outer = listener[1].last.base

\* MaxIncoming items yielded, two of them with different addresses, and then
\* the end of the stream.
C10_Witness ==
    /\ listener # None
    /\ Len(items) = MaxIncoming
    /\ \E i, j \in 1..Len(items) : items[i].addr # items[j].addr
    /\ listener[1].last.outer = "End"

\* C11: over a muxed base, the future of next_incoming resolves to (upgraded
\* future, R) with R the remote address exactly as the base's next_incoming
\* reported it, and every invocation of the upgrade C for that substream has
\* role Listener and address R, never Dialer; next_incoming itself invokes
\* nothing.
C11_NextIncomingRoleAndAddress ==
    incoming # None =>
        /\ incoming[1].calls = <<>>
        /\ (incoming[1].item # None) = (incoming[1].last = "Ready")
        /\ incoming[1].item # None =>
              LET c == incoming[1].item[1]
                  reported == incoming[1].base[1] IN
              /\ c.addr = reported.client_addr
              /\ c.conn = reported.conn
              /\ \A call \in CallsOf(c) :
                    /\ call.role = Listener
                    /\ call.role # Dialer
                    /\ call.addr = reported.client_addr
                    /\ call.upgrade = built.upgrade
                    /\ call.conn = reported.conn

C11_Witness ==
    /\ incoming # None
    /\ incoming[1].item # None
    /\ incoming[1].base[1].client_addr = 2
    /\ incoming[1].item[1].calls # <<>>
    /\ incoming[1].item[1].out.kind = "Ready"

\* C12: dialing A through base.and_then(security).and_then(multiplex), the
\* security upgrade is invoked first, on the base connection, as Dialer with
\* address A; the multiplex upgrade is invoked afterwards, on the security
\* stage's output, with the same role Dialer and the same address A; the
\* multiplex upgrade is never invoked before the security stage resolved
\* successfully, and not at all when the security stage failed.
C12_TwoStageOrder ==
    (pipe # None /\ pipe[1].fut # None) =>
        LET p == pipe[1]
            security == p.fut[1].inner.upgrade
            multiplex == p.fut[1].outer.upgrade
            secCall == [upgrade |-> security, conn |-> 0,
                        role |-> Dialer, addr |-> p.req]
            muxCall == [upgrade |-> multiplex, conn |-> Output(security, 0),
                        role |-> Dialer, addr |-> p.req] IN
        /\ security = built.upgrade
        /\ p.calls \in {<<>>, <<secCall>>, <<secCall, muxCall>>}
        /\ Len(p.calls) = 2 => p.b1 = "Ready"
        /\ p.b1 = "Err" =>
              /\ p.calls = <<secCall>>
              /\ p.out.kind = "Err" /\ p.out.err = ENeg
              /\ p.fut[1].outer.st = "Done"
        /\ p.a = "Err" =>
              /\ p.calls = <<>>
              /\ p.out.kind = "Err" /\ p.out.err = EIo
        /\ p.out.kind = "Ready" => p.calls = <<secCall, muxCall>> /\ p.b2 = "Ready"

C12_Witness ==
    /\ pipe # None /\ pipe[1].fut # None
    /\ pipe[1].req = 2
    /\ pipe[1].fut[1].inner.upgrade # pipe[1].fut[1].outer.upgrade
    /\ Len(pipe[1].calls) = 2
    /\ pipe[1].out.kind = "Ready"

\* C13: nat_traversal(server, observed) of an AndThen answers exactly what
\* the nat_traversal of its base answers for the same two addresses, no
\* answer included, for every pair of addresses; it invokes no upgrade and
\* leaves the AndThen, its base transport and every future and listener as
\* they were.
C13_Inv ==
    /\ nat # None =>
          /\ nat[1].out = BaseNatTraversal(nat[1].self.transport,
                                           nat[1].server, nat[1].observed)
          /\ nat[1].calls = <<>>
          /\ builder = Some(nat[1].self)
    /\ builder # None =>
          \A server \in Addrs, observed \in Addrs :
              /\ AndThenNatTraversal(builder[1], server, observed).res
                    = BaseNatTraversal(builder[1].transport, server, observed)
              /\ AndThenNatTraversal(builder[1], server, observed).calls = <<>>

C13_Step ==
    (nat' # None /\ nat' # nat) =>
        UNCHANGED <<builder, built, ret, dial, listener, items, incoming, pipe>>

C13_NatTraversalPassThrough == [](C13_Inv) /\ [][C13_Step]_vars

C13_Witness ==
    /\ nat # None
    /\ nat[1].out = None
    /\ nat[1].observed = 2
    /\ builder = Some(nat[1].self)

\* C14: as long as every handle and substream the caller passes to the
\* Either muxer is one that same muxer produced (by open_outbound,
\* poll_outbound or poll_inbound), the case of every handle and substream the
\* caller holds is the muxer's own case, no call on any of them panics, and
\* the panic state is not reached.
C14_CorrectUsageNeverPanics ==
    component = "muxer" =>
       /\ ~misused => ~panicked
       /\ \A h \in handles : h.tag = OutboundTag(wrapper.tag)
       /\ \A sub \in substreams : sub.tag = wrapper.tag
       /\ \A h \in handles :
             /\ \A ans \in {"NotReady", "Some", "Err"} :
                   ~EitherPollOutbound(wrapper, h, ans).panic
             /\ ~EitherDestroyOutbound(wrapper, h).panic
       /\ \A sub \in substreams :
             /\ \A op \in SubstreamOps : \A ans \in IoAnswers(op) :
                   ~EitherSubstreamIo(op, wrapper, sub, ans).panic
             /\ ~EitherDestroySubstream(wrapper, sub).panic

C14_Witness ==
    /\ component = "muxer"
    /\ ~misused /\ ~panicked
    /\ wrapper.tag = Second
    /\ handles # {} /\ substreams # {}
    /\ last.op = "poll_outbound" /\ last.outer.kind = "Some"
    /\ wrapper.inner.inClosed

\* C15 (state part): the last poll of the AndThen listener stream gave a
\* stream-level error only if the base listening stream gave an error on
\* that same poll, and no outcome of the base stream other than an error is
\* mapped to one.
C15_Inv ==
    listener # None =>
        /\ listener[1].last.mapped = "Err" => listener[1].last.base = "Err"
        /\ \A p \in BasePolls(listener[1]) :
              ListenMapPoll(listener[1].stream, p).kind = "Err" => p.kind = "Err"

\* C15 (step part): a poll of an item's future, whatever the upgrade's
\* outcome, leaves the listener stream as it was; the stream comes to report
\* an error only in a step in which the base stream is polled and errs.
C15_Step ==
    listener # None =>
        /\ (Len(items') = Len(items) /\ items' # items) => listener' = listener
        /\ (listener' # listener /\ listener'[1].last.mapped = "Err") =>
              (listener'[1].last.base = "Err" /\ items' = items)

\* C15: the AndThen listener stream produces a stream-level Err only if the
\* base listening stream produces an Err on that poll; no upgrade outcome,
\* success, failure or not-ready, makes the stream produce an Err.
C15_StreamErrOnlyFromBase == [](C15_Inv) /\ [][C15_Step]_vars

\* The base stream has just erred, after an item whose upgrade failed and
\* one whose upgrade succeeded.
C15_Witness ==
    /\ listener # None
    /\ listener[1].last.base = "Err" /\ listener[1].last.mapped = "Err"
    /\ \E i \in 1..Len(items) : UpgradeFailed(items[i])
    /\ \E i \in 1..Len(items) : Upgraded(items[i])

\* C16: in listen_on, a failed negotiation (the upgrade's future failing)
\* never produces a future with an error: the item's future does not resolve
\* to an error, the failure being delivered as a nested value of a
\* successful outcome (Ok(Err(...))) for that connection.
C16_FailureIsNestedValue ==
    listener # None =>
        \A i \in 1..Len(items) :
            (items[i].a = "Ready" /\ items[i].b = "Err") =>
                /\ items[i].out.kind # "Err"
                /\ items[i].eout.kind # "Err"

\* C17: for every connection (a dial, an item of listen_on, an item of
\* next_incoming) the upgrade is invoked at most once, and only once the
\* connection's base future has resolved successfully; when the base future
\* resolves to an I/O error the composed future resolves to that same error
\* and the upgrade is never invoked; dial and listen_on themselves invoke
\* nothing, and a future not yet polled has invoked nothing.
C17_UpgradeOnceAfterBase ==
    /\ \A c \in Conns :
          /\ Len(c.calls) <= 1
          /\ c.calls # <<>> => c.a = "Ready"
          /\ c.a \in {"-", "NotReady", "Err"} => c.calls = <<>>
          /\ c.a = "Err" =>
                /\ c.fut.st = "Done"
                /\ c.out.kind = "Err" /\ c.out.err = EIo
                /\ c.eout.kind = "Err" /\ c.eout.err = EIo
          /\ c.out.kind = "-" => c.calls = <<>>
    /\ builder # None =>
          \A addr \in Addrs, env \in Envs :
              /\ AndThenDial(builder[1], addr, env).calls = <<>>
              /\ AndThenListenOn(builder[1], addr, env).calls = <<>>

\* One item whose base future gave an I/O error, and one whose upgrade was
\* invoked and resolved.
C17_Witness ==
    /\ Len(items) >= 2
    /\ items[1].a = "Err" /\ items[1].calls = <<>>
    /\ items[2].fut.st = "Done" /\ items[2].b = "Ready"
    /\ Len(items[2].calls) = 1

\* C18 (state part): a future returned by AndThen reports not-ready exactly
\* while the future of its current stage (the base future, then the
\* upgrade's future) is not ready, and reports ready only once both stages
\* have resolved successfully.
C18_Inv ==
    \A c \in Conns :
        c.out.kind # "-" =>
            /\ (c.out.kind = "NotReady")
                  = ((c.fut.st = "First" /\ c.a = "NotReady")
                     \/ (c.fut.st = "Second" /\ c.a = "Ready" /\ c.b = "NotReady"))
            /\ (c.out.kind # "NotReady") = (c.fut.st = "Done")
            /\ c.out.kind = "Ready" => (c.a = "Ready" /\ c.b = "Ready")
            /\ c.eout.kind = c.out.kind

\* C18: a future returned by AndThen reports not-ready exactly while its
\* current stage is not ready and never reports ready before both stages
\* resolved; polled again fairly, with the base future and then the
\* upgrade's future each resolving in the end, it resolves in the end.
C18_ResolvesWhenStagesResolve ==
    /\ [](C18_Inv)
    /\ (dial # None) ~> (dial # None /\ dial[1].cf.fut.st = "Done")
    /\ \A i \in 1..MaxFairIncoming :
          (Len(items) >= i) ~> (Len(items) >= i /\ items[i].fut.st = "Done")
    /\ (incoming # None /\ incoming[1].item # None)
          ~> (incoming # None /\ incoming[1].item # None
              /\ incoming[1].item[1].fut.st = "Done")

\* A dial future that reported not-ready in its first stage, then in its
\* second, and has now resolved to the upgraded output.
C18_Witness ==
    /\ dial # None
    /\ dial[1].cf.fut.st = "Done"
    /\ dial[1].cf.out.kind = "Ready"
    /\ dial[1].cf.a = "Ready" /\ dial[1].cf.b = "Ready"

\* C19: the case is preserved along the listen chain.  An EitherListenStream
\* in case First yields only items whose future is an EitherFuture in case
\* First, with the address of the inner item unchanged, and an EitherFuture
\* in case First resolves only to an EitherOutput in case First; the same
\* for Second; an error of the stream or of a future passes through
\* unchanged and carries no case.
C19_TagPreservedAlongListenChain ==
    listener # None =>
        /\ \A i \in 1..Len(items) :
              /\ items[i].tag = listener[1].tag
              /\ items[i].addr = listener[1].reported[i].client_addr
              /\ items[i].eout.kind = "Ready" =>
                    /\ items[i].eout.tag = listener[1].tag
                    /\ items[i].eout.tag # OtherTag(listener[1].tag)
                    /\ items[i].out.kind = "Ready"
              /\ items[i].eout.kind = "Err" =>
                    /\ items[i].eout.tag = "-"
                    /\ items[i].out.kind = "Err"
                    /\ items[i].eout.err = items[i].out.err
        /\ \A p \in BasePolls(listener[1]) :
              LET inner == ListenMapPoll(listener[1].stream, p)
                  outer == EitherListenStreamPoll(listener[1].tag, inner) IN
              /\ outer.kind = inner.kind
              /\ inner.kind = "Item" =>
                    /\ outer.item[1].future.tag = listener[1].tag
                    /\ outer.item[1].future.inner = inner.item[1].future
                    /\ outer.item[1].addr = inner.item[1].addr
              /\ inner.kind # "Item" => outer.item = None
        /\ listener[1].last.outer = "Err" => listener[1].last.mapped = "Err"

\* A listener in case Second with one item resolved to an output in case
\* Second and another resolved to an error.
C19_Witness ==
    /\ listener # None
    /\ listener[1].tag = Second
    /\ Len(items) >= 2
    /\ items[1].eout.kind = "Ready" /\ items[1].eout.tag = Second
    /\ items[2].eout.kind = "Err"
====
